---- MODULE Spec2Model ----
(***************************************************************************)
(* Model of the problem5 CRUD resource service: the validation middleware, *)
(* the resource routes, ResourceModel and the SQLite table behind it.      *)
(*                                                                         *)
(* Conventions of the model                                                *)
(*  - a JSON / JavaScript value is a record [t, v]; t is the result of     *)
(*    typeof (null has typeof 'object'), v the payload;                    *)
(*  - a string is a sequence of one-character strings, so that trim(),     *)
(*    parseInt() and LIKE are computed character by character;             *)
(*  - a number is kept in halves: Num(3) is 1.5, Num(4) is 2, so that      *)
(*    Number.isInteger and the REAL column can be told apart from the      *)
(*    integers;                                                            *)
(*  - CURRENT_TIMESTAMP has a resolution of one second: `now` is the       *)
(*    clock in whole seconds;                                              *)
(*  - the message of an error is the set of the markers it contains; `env` *)
(*    is process.env.NODE_ENV;                                             *)
(*  - `boot` is how far startServer has come (phase "listening" once       *)
(*    app.listen was called), `calc` an argument of the sum_to_n functions of         *)
(*    problem4 with the results computed for it.                           *)
(***************************************************************************)
EXTENDS Integers, Sequences, FiniteSets, TLC

VARIABLES rows, seq, lastRowid, now, req, created, env, boot, calc

vars == <<rows, seq, lastRowid, now, req, created, env, boot, calc>>

---------------------------------------------------------------------------
(* Bounds *)

\* largest identifier the table hands out before the model stops creating
MaxId == 2
\* last second of the clock
MaxClock == 1
\* the arguments of the sum_to_n functions run from -MaxN to MaxN
MaxN == 8

---------------------------------------------------------------------------
(* JavaScript values *)

Undefined == [t |-> "undefined", v |-> 0]
Null == [t |-> "object", v |-> 0]
Str(s) == [t |-> "string", v |-> s]
Num(h) == [t |-> "number", v |-> h]
\* NaN is a number to typeof; it is kept under a tag of its own so that it is
\* never compared with a number
NaN == [t |-> "NaN", v |-> 0]

IsNaN(x) == x.t = "NaN"

TypeOf(x) == IF x.t = "NaN" THEN "number" ELSE x.t

\* ToBoolean(x) = false
Falsy(x) ==
  \/ x.t = "undefined"
  \/ x.t = "object"
  \/ x.t = "NaN"
  \/ (x.t = "string" /\ Len(x.v) = 0)
  \/ (x.t = "number" /\ x.v = 0)

\* Number.isInteger
IsInteger(x) == x.t = "number" /\ x.v % 2 = 0

\* x < 0 for a value whose typeof is 'number' (NaN < 0 is false)
Negative(x) == x.t = "number" /\ x.v < 0

WhiteSpace == {" "}

RECURSIVE TrimStart(_)
TrimStart(s) ==
  IF s # <<>> /\ Head(s) \in WhiteSpace THEN TrimStart(Tail(s)) ELSE s

RECURSIVE TrimEnd(_)
TrimEnd(s) ==
  IF s # <<>> /\ s[Len(s)] \in WhiteSpace
  THEN TrimEnd(SubSeq(s, 1, Len(s) - 1))
  ELSE s

\* String.prototype.trim
trim(s) == TrimEnd(TrimStart(s))

\* A request body (and a query string) is a record over all the keys the
\* model sends; a key the request does not carry holds Undefined, which JSON
\* cannot carry as a value.  req.body[k]:
Field(body, k) == body[k]

\* Object.keys(body)
Keys(body) == {k \in DOMAIN body : body[k].t # "undefined"}

BusinessFields == <<"name", "description", "category", "price", "quantity">>

---------------------------------------------------------------------------
(* Responses *)

\* the status and the keys of a response body; hasSuccess tells that the body
\* has the key success, details is the message under the key details (none
\* when the key is undefined)
NoResponse ==
  [status |-> 0, hasSuccess |-> TRUE, success |-> FALSE, error |-> "",
   errors |-> <<>>, message |-> "", data |-> <<>>, count |-> -1,
   details |-> {}]

\* res.status(400).json({success: false, errors})
ValidationFailure(errors) ==
  [NoResponse EXCEPT !.status = 400, !.errors = errors]

\* the failure body with success: true
Failure_Successful(s, error) ==
  [NoResponse EXCEPT !.status = s, !.success = TRUE, !.error = error]

\* res.status(s).json({success: false, error})
Failure(s, error) == [NoResponse EXCEPT !.status = s, !.error = error]

---------------------------------------------------------------------------
(* Validation middleware *)

\* the conditions of validateResource, one per field
CreateTextInvalid(x) ==
  Falsy(x) \/ TypeOf(x) # "string" \/ Len(trim(x.v)) = 0

CreatePriceInvalid(x) ==
  x.t = "undefined" \/ TypeOf(x) # "number" \/ Negative(x)

CreateQuantityInvalid(x) ==
  x.t = "undefined" \/ TypeOf(x) # "number" \/ Negative(x) \/ ~IsInteger(x)

Push(errors, cond, msg) == IF cond THEN Append(errors, msg) ELSE errors

\* validateResource as it would be if it stopped at the first failure
validateResourceErrors_FirstOnly(body) ==
  IF CreateTextInvalid(Field(body, "name"))
  THEN <<"Name is required and must be a non-empty string">>
  ELSE IF CreateTextInvalid(Field(body, "description"))
  THEN <<"Description is required and must be a non-empty string">>
  ELSE IF CreateTextInvalid(Field(body, "category"))
  THEN <<"Category is required and must be a non-empty string">>
  ELSE IF CreatePriceInvalid(Field(body, "price"))
  THEN <<"Price is required and must be a non-negative number">>
  ELSE IF CreateQuantityInvalid(Field(body, "quantity"))
  THEN <<"Quantity is required and must be a non-negative integer">>
  ELSE <<>>

\* the errors array validateResource has built when it reaches its last if
validateResourceErrors(body) ==
  LET e1 == Push(<<>>, CreateTextInvalid(Field(body, "name")),
                 "Name is required and must be a non-empty string")
      e2 == Push(e1, CreateTextInvalid(Field(body, "description")),
                 "Description is required and must be a non-empty string")
      e3 == Push(e2, CreateTextInvalid(Field(body, "category")),
                 "Category is required and must be a non-empty string")
      e4 == Push(e3, CreatePriceInvalid(Field(body, "price")),
                 "Price is required and must be a non-negative number")
      e5 == Push(e4, CreateQuantityInvalid(Field(body, "quantity")),
                 "Quantity is required and must be a non-negative integer")
  IN e5

\* validateResource: the response it sends, or NoResponse when it calls next()
validateResource(body) ==
  LET errors == validateResourceErrors(body)
  IN IF Len(errors) > 0 THEN ValidationFailure(errors) ELSE NoResponse

\* the conditions of validateResourceUpdate, one per field
UpdateTextInvalid(x) ==
  x.t # "undefined" /\ (TypeOf(x) # "string" \/ Len(trim(x.v)) = 0)

UpdatePriceInvalid(x) ==
  x.t # "undefined" /\ (TypeOf(x) # "number" \/ Negative(x))

\* the quantity rule of the update validator without Number.isInteger
UpdateQuantityInvalid_NoIntegerCheck(x) ==
  x.t # "undefined" /\ (TypeOf(x) # "number" \/ Negative(x))

UpdateQuantityInvalid(x) ==
  x.t # "undefined" /\ (TypeOf(x) # "number" \/ Negative(x) \/ ~IsInteger(x))

validateResourceUpdateErrors(body) ==
  LET e1 == Push(<<>>, UpdateTextInvalid(Field(body, "name")),
                 "Name must be a non-empty string")
      e2 == Push(e1, UpdateTextInvalid(Field(body, "description")),
                 "Description must be a non-empty string")
      e3 == Push(e2, UpdateTextInvalid(Field(body, "category")),
                 "Category must be a non-empty string")
      e4 == Push(e3, UpdatePriceInvalid(Field(body, "price")),
                 "Price must be a non-negative number")
      e5 == Push(e4, UpdateQuantityInvalid(Field(body, "quantity")),
                 "Quantity must be a non-negative integer")
  IN e5

\* Object.keys(req.body).filter(key => [...].includes(key))
RecognizedKeys(body) ==
  {k \in Keys(body) : \E i \in 1..Len(BusinessFields) : BusinessFields[i] = k}

\* validateResourceUpdate as it would be without its check for at least one
\* field
validateResourceUpdate_NoFieldCheck(body) ==
  LET errors == validateResourceUpdateErrors(body)
  IN IF Len(errors) > 0 THEN ValidationFailure(errors) ELSE NoResponse

\* validateResourceUpdate: the response it sends, or NoResponse when it calls
\* next()
validateResourceUpdate(body) ==
  LET errors == validateResourceUpdateErrors(body)
  IN IF Len(errors) > 0 THEN ValidationFailure(errors)
     ELSE IF Cardinality(RecognizedKeys(body)) = 0
          THEN Failure(400, "No valid fields to update")
          ELSE NoResponse

---------------------------------------------------------------------------
(* parseInt and parseFloat *)

Digits == <<"0", "1", "2", "3", "4", "5", "6", "7", "8", "9",
            "a", "b", "c", "d", "e", "f">>

\* the value of character ch as a digit of the radix, -1 when it is none
DigitVal(ch, radix) ==
  IF \E i \in 1..radix : Digits[i] = ch
  THEN (CHOOSE i \in 1..radix : Digits[i] = ch) - 1
  ELSE -1

\* the longest prefix of s made of digits of the radix
RECURSIVE DigitPrefix(_, _)
DigitPrefix(s, radix) ==
  IF s # <<>> /\ DigitVal(Head(s), radix) >= 0
  THEN <<Head(s)>> \o DigitPrefix(Tail(s), radix)
  ELSE <<>>

RECURSIVE DigitsValue(_, _)
DigitsValue(ds, radix) ==
  IF ds = <<>> THEN 0
  ELSE DigitsValue(SubSeq(ds, 1, Len(ds) - 1), radix) * radix
       + DigitVal(ds[Len(ds)], radix)

HasSign(s) == s # <<>> /\ Head(s) \in {"-", "+"}

Signed(s, n) == IF s # <<>> /\ Head(s) = "-" THEN Num(0 - 2 * n) ELSE Num(2 * n)

\* parseInt(string) without a radix: leading white space is skipped, a sign
\* is accepted, 0x selects radix 16, and parsing stops at the first character
\* that is not a digit; NaN when no digit was read
parseInt(str) ==
  LET s == TrimStart(str)
      u == IF HasSign(s) THEN Tail(s) ELSE s
      hex == Len(u) >= 2 /\ u[1] = "0" /\ u[2] = "x"
      radix == IF hex THEN 16 ELSE 10
      ds == DigitPrefix(IF hex THEN SubSeq(u, 3, Len(u)) ELSE u, radix)
  IN IF ds = <<>> THEN NaN ELSE Signed(s, DigitsValue(ds, radix))

\* parseFloat(string) on the strings of the model, which carry no '.' and no
\* exponent: the decimal digits after the optional sign
parseFloat(str) ==
  LET s == TrimStart(str)
      u == IF HasSign(s) THEN Tail(s) ELSE s
      ds == DigitPrefix(u, 10)
  IN IF ds = <<>> THEN NaN ELSE Signed(s, DigitsValue(ds, 10))

---------------------------------------------------------------------------
(* The resources table *)

\* the text SQLite makes of a number stored in a TEXT column (single digits)
NumText(x) ==
  LET m == IF x.v < 0 THEN 0 - x.v ELSE x.v
      d == <<Digits[(m \div 2) + 1]>> \o (IF m % 2 = 1 THEN <<".", "5">> ELSE <<>>)
  IN IF x.v < 0 THEN <<"-">> \o d ELSE d

\* what node-sqlite3 binds for a JavaScript value: undefined is left unbound,
\* which is NULL,
\* and so is NaN
Bind(x) == IF x.t \in {"undefined", "NaN"} THEN Null ELSE x

\* column affinity TEXT: a number is stored as its text
TextAffinity(x) == IF x.t = "number" THEN Str(NumText(x)) ELSE x

\* column affinity REAL / INTEGER: a text that is a decimal literal becomes a
\* number, anything else is stored as it is
NumericAffinity(x) ==
  IF x.t = "string" /\ x.v # <<>> /\ DigitPrefix(x.v, 10) = x.v
  THEN Num(2 * DigitsValue(x.v, 10))
  ELSE x

IsNull(x) == x.t = "object"

\* SQL x >= y on stored values: NULL compares to nothing, a text is greater
\* than every number
SqlGe(x, y) ==
  /\ ~IsNull(x) /\ ~IsNull(y)
  /\ \/ x.t = "string" /\ y.t = "number"
     \/ x.t = "number" /\ y.t = "number" /\ x.v >= y.v

\* NOT NULL on the five columns, CHECK(price >= 0), CHECK(quantity >= 0); a
\* CHECK fails only when its expression is false, not when it is NULL
ConstraintsHold(r) ==
  /\ \A i \in 1..Len(BusinessFields) : ~IsNull(r[BusinessFields[i]])
  /\ SqlGe(r.price, Num(0))
  /\ SqlGe(r.quantity, Num(0))

\* the error messages of the driver, by the markers errorHandler looks for
ConstraintError == {"SQLITE_CONSTRAINT"}
SyntaxError == {"SQLITE_ERROR"}
NoError == {}

EmptyTable == [i \in {} |-> Null]

\* the names of the table and of the trigger initializeDatabase creates
Schema == {"resources", "update_resources_timestamp"}

\* startServer not called yet: nothing created, the process running
NotStarted == [phase |-> "start", schema |-> {}, exit |-> -1]

\* the server after initializeDatabase resolved and app.listen was called
Listening == [NotStarted EXCEPT !.phase = "listening", !.schema = Schema]

\* no argument given to the sum_to_n functions yet
NoCalc == [n |-> 0, done |-> {}, a |-> 0, b |-> 0, c |-> 0]

\* the rowid of a table declared without AUTOINCREMENT: one more than the
\* largest rowid the table holds now
NextRowid_NoAutoincrement(table, sequence) ==
  LET top == IF DOMAIN table = {} THEN 0
             ELSE CHOOSE i \in DOMAIN table : \A j \in DOMAIN table : j <= i
  IN top + 1

\* id INTEGER PRIMARY KEY AUTOINCREMENT: one more than the largest rowid the
\* table ever held (sqlite_sequence), so the rowid of a deleted row is not
\* handed out again
NextRowid(table, sequence) ==
  LET top == IF DOMAIN table = {} THEN 0
             ELSE CHOOSE i \in DOMAIN table : \A j \in DOMAIN table : j <= i
  IN (IF top > sequence THEN top ELSE sequence) + 1

\* the row of an INSERT whose parameters are bound with description and
\* category exchanged
NewRow_Exchanged(id, name, description, category, price, quantity, t) ==
  [id |-> id,
   name |-> TextAffinity(Bind(name)),
   description |-> TextAffinity(Bind(category)),
   category |-> TextAffinity(Bind(description)),
   price |-> NumericAffinity(Bind(price)),
   quantity |-> NumericAffinity(Bind(quantity)),
   created_at |-> t,
   updated_at |-> t]

\* the row INSERT INTO resources (name, description, category, price,
\* quantity) VALUES (?, ?, ?, ?, ?) builds at second t
NewRow(id, name, description, category, price, quantity, t) ==
  [id |-> id,
   name |-> TextAffinity(Bind(name)),
   description |-> TextAffinity(Bind(description)),
   category |-> TextAffinity(Bind(category)),
   price |-> NumericAffinity(Bind(price)),
   quantity |-> NumericAffinity(Bind(quantity)),
   created_at |-> t,
   updated_at |-> t]

\* SELECT * FROM resources WHERE id = ? : a sequence of at most one row
SelectById(table, id) ==
  IF id.t = "number" /\ id.v % 2 = 0 /\ (id.v \div 2) \in DOMAIN table
  THEN <<table[id.v \div 2]>>
  ELSE <<>>

---------------------------------------------------------------------------
(* Error middleware *)

\* errorHandler with its two tests in the other order
errorHandler_StorageFirst(err) ==
  LET inDevelopment == IF env = "development" THEN err ELSE {}
  IN IF "SQLITE_ERROR" \in err
     THEN [Failure(500, "Database error") EXCEPT !.details = inDevelopment]
     ELSE IF "SQLITE_CONSTRAINT" \in err
          THEN [Failure(400, "Database constraint violation") EXCEPT
                  !.details = err]
          ELSE [Failure(500, "Internal server error") EXCEPT
                  !.details = inDevelopment]

\* errorHandler: the response for an error whose message carries the markers
errorHandler(err) ==
  LET inDevelopment == IF env = "development" THEN err ELSE {}
  IN IF "SQLITE_CONSTRAINT" \in err
     THEN [Failure(400, "Database constraint violation") EXCEPT !.details = err]
     ELSE IF "SQLITE_ERROR" \in err
          THEN [Failure(500, "Database error") EXCEPT !.details = inDevelopment]
          ELSE [Failure(500, "Internal server error") EXCEPT
                  !.details = inDevelopment]

---------------------------------------------------------------------------
(* Requests *)

Clients == {1, 2}

EmptyBody ==
  [name |-> Undefined, description |-> Undefined, category |-> Undefined,
   price |-> Undefined, quantity |-> Undefined, id |-> Undefined,
   created_at |-> Undefined, updated_at |-> Undefined]

EmptyQuery ==
  [name |-> Undefined, category |-> Undefined, min_price |-> Undefined,
   max_price |-> Undefined, limit |-> Undefined, offset |-> Undefined]

\* the filters object with no key: the default argument of findAll
NoFilters ==
  [name |-> Undefined, category |-> Undefined, min_price |-> Undefined,
   max_price |-> Undefined, limit |-> Undefined, offset |-> Undefined]

\* what a call of a ResourceModel method came to: nothing yet ("none"), a
\* boolean ("true", "false"), the rows of findAll ("rows"), or a rejected
\* promise ("rejected")
NoReturn == [kind |-> "none", rows |-> <<>>]

\* a request slot: the request (method, path parameter, body, query), the
\* position of its handler (pc), the locals of the handler that live across
\* an await (id, newId, held), the response sent (res), the error passed to
\* next (err), and three records kept for the properties: the statements the
\* request has issued (stmts), the error a statement of the request was
\* rejected with (raised), and the table as it was when the request arrived
\* (pre); also the number of responses sent for the request (sent) and the
\* rowid of the row its INSERT made (inserted). A slot also holds a call of a
\* ResourceModel method made without a route: its filters argument and what
\* it came to (ret).
Idle ==
  [pc |-> "idle", method |-> "", path |-> <<>>, body |-> EmptyBody,
   query |-> EmptyQuery, id |-> NaN, newId |-> 0, held |-> <<>>,
   res |-> NoResponse, err |-> NoError, raised |-> NoError, stmts |-> <<>>,
   pre |-> EmptyTable, filters |-> NoFilters, ret |-> NoReturn,
   sent |-> 0, inserted |-> 0]

\* next(error) in the catch block of a handler whose awaited call was
\* rejected with error: the error middleware answers
Forward(r, error) ==
  [r EXCEPT !.pc = "done", !.raised = error, !.err = error,
            !.sent = @ + 1, !.res = errorHandler(error)]

\* res.status(s).json({success: true, data}) with data a sequence of rows: the
\* one resource of a single-resource answer (none when it is undefined)
Success(s, data) ==
  [NoResponse EXCEPT !.status = s, !.success = TRUE, !.data = data]

\* a response after which the handler goes on
Respond_Continues(c, r) ==
  req' = [req EXCEPT ![c].sent = @ + 1, ![c].res = r]

\* res.status(...).json(...) followed by return
Respond(c, r) ==
  req' = [req EXCEPT ![c].pc = "done", ![c].sent = @ + 1, ![c].res = r]

Issue(r, stmt) == [r EXCEPT !.stmts = Append(@, stmt)]

\* a request arrives at client slot c
Arrive(c, method, path, body, query) ==
  /\ boot.phase = "listening"
  /\ req[c].pc \in {"idle", "done"}
  /\ req' = [req EXCEPT ![c] =
               [Idle EXCEPT !.pc = "start", !.method = method, !.path = path,
                            !.body = body, !.query = query, !.pre = rows]]
  /\ UNCHANGED <<rows, seq, lastRowid, now, created, env, boot, calc>>

---------------------------------------------------------------------------
(* POST /api/resources *)

\* the POST route without validateResource
PostValidate_Skipped(c) ==
  /\ req[c].pc = "start" /\ req[c].method = "POST"
  /\ req' = [req EXCEPT ![c].pc = "insert"]
  /\ UNCHANGED <<rows, seq, lastRowid, now, created, env, boot, calc>>

\* validateResource, then the handler up to the INSERT it awaits
PostValidate(c) ==
  /\ req[c].pc = "start" /\ req[c].method = "POST"
  /\ LET v == validateResource(req[c].body)
     IN IF v.status # 0
        THEN Respond(c, v)
        ELSE req' = [req EXCEPT ![c].pc = "insert"]
  /\ UNCHANGED <<rows, seq, lastRowid, now, created, env, boot, calc>>

\* ResourceModel.create: runQuery(INSERT ...)
PostInsert(c) ==
  /\ req[c].pc = "insert"
  /\ LET b == req[c].body
         id == NextRowid(rows, seq)
         r == NewRow(id, b.name, b.description, b.category, b.price,
                     b.quantity, now)
     IN IF ConstraintsHold(r)
        THEN /\ rows' = [i \in DOMAIN rows \cup {id} |->
                           IF i = id THEN r ELSE rows[i]]
             /\ seq' = id
             /\ lastRowid' = id
             /\ req' = [req EXCEPT ![c] = Issue([@ EXCEPT !.pc = "lastid",
                                                           !.inserted = id],
                                                "INSERT")]
        ELSE /\ req' = [req EXCEPT ![c] =
                          Issue(Forward(@, ConstraintError), "INSERT")]
             /\ UNCHANGED <<rows, seq, lastRowid>>
  /\ UNCHANGED <<now, created, env, boot, calc>>

\* create resolving with the rowid of the row its own INSERT made
PostLastId_OwnRow(c) ==
  /\ req[c].pc = "lastid"
  /\ req' = [req EXCEPT ![c] = Issue([@ EXCEPT !.pc = "created",
                                                !.newId = req[c].inserted],
                                     "LASTID")]
  /\ created' = Append(created, req[c].inserted)
  /\ UNCHANGED <<rows, seq, lastRowid, now, env, boot, calc>>

\* ResourceModel.create: getQuery('SELECT last_insert_rowid() as id'), which
\* resolves create with result?.id || 0
PostLastId(c) ==
  /\ req[c].pc = "lastid"
  /\ req' = [req EXCEPT ![c] = Issue([@ EXCEPT !.pc = "created",
                                                !.newId = lastRowid],
                                     "LASTID")]
  /\ created' = Append(created, lastRowid)
  /\ UNCHANGED <<rows, seq, lastRowid, now, env, boot, calc>>

\* the handler after create: findById(id) and the 201 answer
PostFetch(c) ==
  /\ req[c].pc = "created"
  /\ req' = [req EXCEPT ![c] =
               Issue([@ EXCEPT !.pc = "done",
                               !.sent = @ + 1, !.res = Success(201, SelectById(rows, Num(2 * req[c].newId)))],
                     "SELECT")]
  /\ UNCHANGED <<rows, seq, lastRowid, now, created, env, boot, calc>>

---------------------------------------------------------------------------
(* GET /api/resources/:id *)

GetHandler(c) ==
  /\ req[c].pc = "start" /\ req[c].method = "GET"
  /\ LET id == parseInt(req[c].path)
     IN IF IsNaN(id)
        THEN Respond(c, Failure(400, "Invalid resource ID"))
        ELSE req' = [req EXCEPT ![c].pc = "get", ![c].id = id]
  /\ UNCHANGED <<rows, seq, lastRowid, now, created, env, boot, calc>>

GetFetch(c) ==
  /\ req[c].pc = "get"
  /\ LET resource == SelectById(rows, req[c].id)
     IN req' = [req EXCEPT ![c] =
                  Issue([@ EXCEPT !.pc = "done",
                                  !.sent = @ + 1, !.res = IF resource = <<>>
                                          THEN Failure(404, "Resource not found")
                                          ELSE Success(200, resource)],
                        "SELECT")]
  /\ UNCHANGED <<rows, seq, lastRowid, now, created, env, boot, calc>>

---------------------------------------------------------------------------
(* PUT /api/resources/:id *)

\* the SET list ResourceModel.update builds: the fields that are not undefined
UpdateFields(updates) ==
  {BusinessFields[i] : i \in {j \in 1..Len(BusinessFields) :
                                Field(updates, BusinessFields[j]).t # "undefined"}}

\* the value column k holds after UPDATE resources SET <fields> WHERE id = ?
Assign(r, updates, k) ==
  IF k \in UpdateFields(updates)
  THEN IF k \in {"price", "quantity"}
       THEN NumericAffinity(Bind(Field(updates, k)))
       ELSE TextAffinity(Bind(Field(updates, k)))
  ELSE r[k]

\* the row after UPDATE resources SET <fields> WHERE id = ?
UpdatedRow(r, updates) ==
  [r EXCEPT !.name = Assign(r, updates, "name"),
            !.description = Assign(r, updates, "description"),
            !.category = Assign(r, updates, "category"),
            !.price = Assign(r, updates, "price"),
            !.quantity = Assign(r, updates, "quantity")]

\* a trigger that sets both timestamps
Touch_BothTimestamps(r, t) == [r EXCEPT !.created_at = t, !.updated_at = t]

\* the trigger update_resources_timestamp, run after the update of row r at
\* second t
Touch(r, t) == [r EXCEPT !.updated_at = t]

\* validateResourceUpdate, then the handler up to the UPDATE that
\* ResourceModel.update awaits
PutHandler(c) ==
  /\ req[c].pc = "start" /\ req[c].method = "PUT"
  /\ LET v == validateResourceUpdate(req[c].body)
         id == parseInt(req[c].path)
     IN IF v.status # 0
        THEN Respond(c, v)
        ELSE IF IsNaN(id)
             THEN Respond(c, Failure(400, "Invalid resource ID"))
             ELSE IF UpdateFields(req[c].body) = {}
                  THEN Respond(c, Failure(404,
                         "Resource not found or no updates provided"))
                  ELSE req' = [req EXCEPT ![c].pc = "update", ![c].id = id]
  /\ UNCHANGED <<rows, seq, lastRowid, now, created, env, boot, calc>>

\* the result with >= in the place of >
UpdateResult_AnyCount(changes) == changes >= 0

\* ResourceModel.update's result for a statement that ran: result.changes > 0
UpdateResult(changes) == changes > 0

\* ResourceModel.update: runQuery(UPDATE ...), its result, and false when the
\* statement fails; the handler answers 404 on false
PutUpdate(c) ==
  /\ req[c].pc = "update"
  /\ LET found == SelectById(rows, req[c].id)
         r == IF found = <<>> THEN <<>> ELSE UpdatedRow(found[1], req[c].body)
         failed == found # <<>> /\ ~ConstraintsHold(r)
         success == IF failed THEN FALSE ELSE UpdateResult(Len(found))
     IN /\ rows' = IF found # <<>> /\ ~failed
                   THEN [rows EXCEPT ![r.id] = Touch(r, now)]
                   ELSE rows
        /\ req' = [req EXCEPT ![c] =
                     Issue(IF success
                           THEN [@ EXCEPT !.pc = "updated"]
                           ELSE [@ EXCEPT !.pc = "done",
                                          !.raised = IF failed
                                                     THEN ConstraintError
                                                     ELSE NoError,
                                          !.sent = @ + 1, !.res = Failure(404,
                                            "Resource not found or no updates provided")],
                           "UPDATE")]
  /\ UNCHANGED <<seq, lastRowid, now, created, env, boot, calc>>

\* the handler after update: findById(id) and the 200 answer
PutFetch(c) ==
  /\ req[c].pc = "updated"
  /\ req' = [req EXCEPT ![c] =
               Issue([@ EXCEPT !.pc = "done",
                               !.sent = @ + 1, !.res = Success(200, SelectById(rows, req[c].id))],
                     "SELECT")]
  /\ UNCHANGED <<rows, seq, lastRowid, now, created, env, boot, calc>>

---------------------------------------------------------------------------
(* DELETE /api/resources/:id *)

DeleteHandler(c) ==
  /\ req[c].pc = "start" /\ req[c].method = "DELETE"
  /\ LET id == parseInt(req[c].path)
     IN IF IsNaN(id)
        THEN Respond(c, Failure(400, "Invalid resource ID"))
        ELSE req' = [req EXCEPT ![c].pc = "lookup", ![c].id = id]
  /\ UNCHANGED <<rows, seq, lastRowid, now, created, env, boot, calc>>

\* the delete handler without its return on a resource that is not found
DeleteFetch_NoReturn(c) ==
  /\ req[c].pc = "lookup"
  /\ req' = [req EXCEPT ![c] =
               Issue([@ EXCEPT !.pc = "delete",
                               !.held = SelectById(rows, req[c].id)],
                     "SELECT")]
  /\ UNCHANGED <<rows, seq, lastRowid, now, created, env, boot, calc>>

\* findById(id) of the delete handler
DeleteFetch(c) ==
  /\ req[c].pc = "lookup"
  /\ LET resource == SelectById(rows, req[c].id)
     IN req' = [req EXCEPT ![c] =
                  Issue(IF resource = <<>>
                        THEN [@ EXCEPT !.pc = "done",
                                       !.sent = @ + 1, !.res = Failure(404, "Resource not found")]
                        ELSE [@ EXCEPT !.pc = "delete", !.held = resource],
                        "SELECT")]
  /\ UNCHANGED <<rows, seq, lastRowid, now, created, env, boot, calc>>

\* the delete handler with a statement that removes nothing
DeleteRun_KeepsRow(c) ==
  /\ req[c].pc = "delete"
  /\ req' = [req EXCEPT ![c] =
               Issue([@ EXCEPT !.pc = "done",
                               !.sent = @ + 1, !.res = [Success(200, req[c].held) EXCEPT
                                          !.message = "Resource deleted successfully"]],
                     "DELETE")]
  /\ UNCHANGED <<rows, seq, lastRowid, now, created, env, boot, calc>>

\* ResourceModel.delete: runQuery(DELETE FROM resources WHERE id = ?), then
\* the 200 answer with the resource read before
DeleteRun(c) ==
  /\ req[c].pc = "delete"
  /\ LET id == req[c].id.v \div 2
     IN rows' = [i \in DOMAIN rows \ {id} |-> rows[i]]
  /\ req' = [req EXCEPT ![c] =
               Issue([@ EXCEPT !.pc = "done",
                               !.sent = @ + 1, !.res = [Success(200, req[c].held) EXCEPT
                                          !.message = "Resource deleted successfully"]],
                     "DELETE")]
  /\ UNCHANGED <<seq, lastRowid, now, created, env, boot, calc>>

---------------------------------------------------------------------------
(* GET /api/resources *)

UpperCase == <<"A", "B", "C", "D", "E", "F">>
LowerCase == <<"a", "b", "c", "d", "e", "f">>

\* LIKE folds the case of ASCII letters
Fold(ch) ==
  IF \E i \in 1..Len(UpperCase) : UpperCase[i] = ch
  THEN LowerCase[CHOOSE i \in 1..Len(UpperCase) : UpperCase[i] = ch]
  ELSE ch

\* text LIKE pattern in SQLite: % matches any run of characters, _ any one
\* character, letters match without regard to case
RECURSIVE Like(_, _)
Like(pattern, text) ==
  IF pattern = <<>> THEN text = <<>>
  ELSE IF Head(pattern) = "%"
       THEN Like(Tail(pattern), text)
            \/ (text # <<>> /\ Like(pattern, Tail(text)))
       ELSE /\ text # <<>>
            /\ (Head(pattern) = "_" \/ Fold(Head(pattern)) = Fold(Head(text)))
            /\ Like(Tail(pattern), Tail(text))

\* the WHERE clause with price > ? in the place of price >= ?
Matches_StrictMin(r, filters) ==
  /\ Falsy(filters.name)
     \/ (r.name.t = "string" /\ Like(<<"%">> \o filters.name.v \o <<"%">>, r.name.v))
  /\ Falsy(filters.category) \/ r.category = filters.category
  /\ filters.min_price.t = "undefined"
     \/ (SqlGe(r.price, Bind(filters.min_price)) /\ r.price # Bind(filters.min_price))
  /\ filters.max_price.t = "undefined" \/ SqlGe(Bind(filters.max_price), r.price)

\* the WHERE clause ResourceModel.findAll builds from the filters
Matches(r, filters) ==
  /\ Falsy(filters.name)
     \/ (r.name.t = "string" /\ Like(<<"%">> \o filters.name.v \o <<"%">>, r.name.v))
  /\ Falsy(filters.category) \/ r.category = filters.category
  /\ filters.min_price.t = "undefined" \/ SqlGe(r.price, Bind(filters.min_price))
  /\ filters.max_price.t = "undefined" \/ SqlGe(Bind(filters.max_price), r.price)

\* ORDER BY created_at DESC: every order of the rows in which created_at does
\* not increase; the order of rows with equal created_at is not defined
Orderings(S) ==
  {o \in [1..Cardinality(S) -> S] :
     /\ \A i, j \in 1..Cardinality(S) : i # j => o[i] # o[j]
     /\ \A i, j \in 1..Cardinality(S) : i < j => o[i].created_at >= o[j].created_at}

HasLimit(filters) == ~Falsy(filters.limit)
HasOffset(filters) == ~Falsy(filters.offset)

\* the statement of findAll is not SQL when it ends in OFFSET ? without LIMIT ?
FindAllError(filters) ==
  IF HasOffset(filters) /\ ~HasLimit(filters) THEN SyntaxError ELSE NoError

\* LIMIT ? OFFSET ? applied to the ordered rows: a negative LIMIT is no
\* limit, a negative OFFSET is no offset
Page(ordered, filters) ==
  LET n == Len(ordered)
      skip == IF HasOffset(filters) /\ filters.offset.v > 0
              THEN filters.offset.v \div 2 ELSE 0
      from == IF skip > n THEN n ELSE skip
      take == IF HasLimit(filters) /\ filters.limit.v >= 0
              THEN filters.limit.v \div 2 ELSE n
      to == IF from + take > n THEN n ELSE from + take
  IN SubSeq(ordered, from + 1, to)

\* the results ResourceModel.findAll can resolve with
findAll(table, filters) ==
  {Page(o, filters) :
     o \in Orderings({table[i] : i \in {j \in DOMAIN table : Matches(table[j], filters)}})}

\* the filters object the route builds from req.query
Filters(query) ==
  [name |-> query.name,
   category |-> query.category,
   min_price |-> IF ~Falsy(query.min_price) THEN parseFloat(query.min_price.v)
                 ELSE Undefined,
   max_price |-> IF ~Falsy(query.max_price) THEN parseFloat(query.max_price.v)
                 ELSE Undefined,
   limit |-> IF ~Falsy(query.limit) THEN parseInt(query.limit.v) ELSE Num(2 * 50),
   offset |-> IF ~Falsy(query.offset) THEN parseInt(query.offset.v) ELSE Num(0)]

\* the list handler: findAll(filters), then the 200 answer with count, or the
\* error handed to errorHandler
ListHandler(c) ==
  /\ req[c].pc = "start" /\ req[c].method = "LIST"
  /\ LET filters == Filters(req[c].query)
         err == FindAllError(filters)
     IN IF err # NoError
        THEN req' = [req EXCEPT ![c] =
                       Issue(Forward(@, err), "SELECTALL")]
        ELSE \E resources \in findAll(rows, filters) :
               req' = [req EXCEPT ![c] =
                         Issue([@ EXCEPT !.pc = "done",
                                         !.sent = @ + 1, !.res = [Success(200, resources) EXCEPT
                                                    !.count = Len(resources)]],
                               "SELECTALL")]
  /\ UNCHANGED <<rows, seq, lastRowid, now, created, env, boot, calc>>

---------------------------------------------------------------------------
(* Time *)

\* a second passes
Tick ==
  /\ now < MaxClock
  /\ now' = now + 1
  /\ UNCHANGED <<rows, seq, lastRowid, req, created, env, boot, calc>>

---------------------------------------------------------------------------
(* The requests the clients send *)

Laptop ==
  [EmptyBody EXCEPT !.name = Str(<<"a", "b">>), !.description = Str(<<"d">>),
                    !.category = Str(<<"c">>), !.price = Num(3),
                    !.quantity = Num(4)]

Padded ==
  [EmptyBody EXCEPT !.name = Str(<<" ", "B">>), !.description = Str(<<"d">>),
                    !.category = Str(<<"e">>), !.price = Num(0),
                    !.quantity = Num(0)]

PostBodies ==
  {Laptop, Padded,
   [EmptyBody EXCEPT !.name = Str(<<"a">>)],
   [Laptop EXCEPT !.price = Num(-2)]}

PutBodies ==
  {[EmptyBody EXCEPT !.name = Str(<<"f">>)],
   [EmptyBody EXCEPT !.price = Num(4), !.id = Num(18)],
   [EmptyBody EXCEPT !.quantity = Num(3)],
   [EmptyBody EXCEPT !.id = Num(18)],
   EmptyBody}

Paths == {<<"1">>, <<"9">>, <<"a">>, <<"1", "a">>}

Queries ==
  {EmptyQuery,
   [EmptyQuery EXCEPT !.limit = Str(<<"1">>)],
   [EmptyQuery EXCEPT !.limit = Str(<<"0">>)],
   [EmptyQuery EXCEPT !.limit = Str(<<"1">>), !.offset = Str(<<"1">>)],
   [EmptyQuery EXCEPT !.limit = Str(<<"0">>), !.offset = Str(<<"1">>)],
   [EmptyQuery EXCEPT !.offset = Str(<<"1">>)],
   [EmptyQuery EXCEPT !.min_price = Str(<<"0">>), !.max_price = Str(<<"1">>)],
   [EmptyQuery EXCEPT !.min_price = Str(<<"1">>), !.max_price = Str(<<"2">>)],
   [EmptyQuery EXCEPT !.min_price = Str(<<"0">>), !.max_price = Str(<<"0">>)],
   [EmptyQuery EXCEPT !.name = Str(<<"b">>)],
   [EmptyQuery EXCEPT !.category = Str(<<"c">>), !.min_price = Str(<<"1">>)]}

\* some request arrives at slot c
Receive(c) ==
  \/ /\ seq < MaxId
     /\ \E body \in PostBodies : Arrive(c, "POST", <<>>, body, EmptyQuery)
  \/ \E path \in Paths : Arrive(c, "GET", path, EmptyBody, EmptyQuery)
  \/ \E path \in Paths, body \in PutBodies :
       Arrive(c, "PUT", path, body, EmptyQuery)
  \/ \E path \in Paths : Arrive(c, "DELETE", path, EmptyBody, EmptyQuery)
  \/ \E query \in Queries : Arrive(c, "LIST", <<>>, EmptyBody, query)

\* one step of the handler of the request in slot c
Handle(c) ==
  \/ PostValidate(c) \/ PostInsert(c) \/ PostLastId(c) \/ PostFetch(c)
  \/ GetHandler(c) \/ GetFetch(c)
  \/ PutHandler(c) \/ PutUpdate(c) \/ PutFetch(c)
  \/ DeleteHandler(c) \/ DeleteFetch(c) \/ DeleteRun(c)
  \/ ListHandler(c)

InFlight(c) == req[c].pc \notin {"idle", "done"}

---------------------------------------------------------------------------
(* One client that sends its next request after the answer to the previous
   one: the single-threaded test client *)

Init ==
  /\ rows = EmptyTable
  /\ seq = 0
  /\ lastRowid = 0
  /\ now = 0
  /\ req = [c \in Clients |-> Idle]
  /\ created = <<>>
  /\ env = "test"
  /\ boot = Listening
  /\ calc = NoCalc

ReceiveNext == ~(\E c \in Clients : InFlight(c)) /\ Receive(1)

HandleNext == \E c \in Clients : Handle(c)

Next == ReceiveNext \/ HandleNext \/ Tick

Spec == Init /\ [][Next]_vars

---------------------------------------------------------------------------
(* The validators alone, on every body over the values below *)

TextValues ==
  {Undefined, Null, Str(<<>>), Str(<<" ">>), Str(<<" ", "a">>),
   Num(-2), Num(0), Num(3), Num(4)}

FewValues == {Undefined, Str(<<" ">>), Str(<<"d">>), Num(0)}

NumberValues ==
  {Undefined, Null, Str(<<"1">>), Str(<<>>), Num(-2), Num(-1), Num(0), Num(3),
   Num(4)}

AllBodies ==
  {[name |-> n, description |-> d, category |-> g, price |-> p,
    quantity |-> q, id |-> i, created_at |-> Undefined,
    updated_at |-> Undefined] :
     n \in TextValues, d \in FewValues, g \in FewValues,
     p \in NumberValues, q \in NumberValues, i \in {Undefined, Num(18)}}

InitValidate ==
  /\ rows = EmptyTable
  /\ seq = 0
  /\ lastRowid = 0
  /\ now = 0
  /\ created = <<>>
  /\ env = "test"
  /\ boot = Listening
  /\ calc = NoCalc
  /\ \E body \in AllBodies :
       \/ req = [c \in Clients |->
                   IF c = 1
                   THEN [Idle EXCEPT !.pc = "start", !.method = "POST",
                                     !.body = body]
                   ELSE Idle]
       \/ \E path \in {<<"1">>, <<"a">>} :
            req = [c \in Clients |->
                     IF c = 1
                     THEN [Idle EXCEPT !.pc = "start", !.method = "PUT",
                                       !.path = path, !.body = body]
                     ELSE Idle]

NextValidate == PostValidate(1) \/ PutHandler(1)

SpecValidate == InitValidate /\ [][NextValidate]_vars

---------------------------------------------------------------------------
(* ResourceModel called without a route: update and findAll on the arguments
   below, on a table that POST requests fill *)

ModelIds == {Num(2), Num(4), Num(18)}

ModelUpdates ==
  {EmptyBody,
   [EmptyBody EXCEPT !.id = Num(18)],
   [EmptyBody EXCEPT !.name = Str(<<"f">>)],
   [EmptyBody EXCEPT !.price = Num(-2)],
   [EmptyBody EXCEPT !.price = Num(4), !.quantity = Num(6)]}

ModelFilters ==
  {NoFilters,
   [NoFilters EXCEPT !.limit = Num(0)],
   [NoFilters EXCEPT !.limit = Num(2)],
   [NoFilters EXCEPT !.offset = Num(2)],
   [NoFilters EXCEPT !.limit = Num(2), !.offset = Num(2)],
   [NoFilters EXCEPT !.limit = Num(0), !.offset = Num(2)],
   [NoFilters EXCEPT !.limit = Num(4), !.offset = Num(0)]}

\* update without its return on an empty SET list
NoFields_Never(updates) == FALSE

\* fields.length === 0
NoFields(updates) == UpdateFields(updates) = {}

\* ResourceModel.update(id, updates) up to its first await: false at once
\* when no field is to be set
UpdateCall(c) ==
  /\ req[c].pc \in {"idle", "done"}
  /\ \E id \in ModelIds, updates \in ModelUpdates :
       LET call == [Idle EXCEPT !.method = "update", !.id = id,
                                !.body = updates, !.pre = rows]
       IN req' = [req EXCEPT ![c] =
                    IF NoFields(updates)
                    THEN [call EXCEPT !.pc = "done",
                                      !.ret = [NoReturn EXCEPT !.kind = "false"]]
                    ELSE [call EXCEPT !.pc = "run"]]
  /\ UNCHANGED <<rows, seq, lastRowid, now, created, env, boot, calc>>

\* ResourceModel.update from runQuery(UPDATE ...) on: result.changes > 0, and
\* false when the statement fails (a constraint, or a SET list with nothing
\* in it)
UpdateRun(c) ==
  /\ req[c].pc = "run"
  /\ LET found == SelectById(rows, req[c].id)
         r == IF found = <<>> THEN <<>> ELSE UpdatedRow(found[1], req[c].body)
         failed == \/ UpdateFields(req[c].body) = {}
                   \/ found # <<>> /\ ~ConstraintsHold(r)
         success == IF failed THEN FALSE ELSE UpdateResult(Len(found))
     IN /\ rows' = IF found # <<>> /\ ~failed
                   THEN [rows EXCEPT ![r.id] = Touch(r, now)]
                   ELSE rows
        /\ req' = [req EXCEPT ![c] =
                     Issue([@ EXCEPT !.pc = "done",
                                     !.ret = [NoReturn EXCEPT !.kind =
                                                IF success THEN "true"
                                                ELSE "false"]],
                           "UPDATE")]
  /\ UNCHANGED <<seq, lastRowid, now, created, env, boot, calc>>

\* ResourceModel.findAll(filters): the rows of allQuery, or its rejection
FindAllCall(c) ==
  /\ req[c].pc \in {"idle", "done"}
  /\ \E filters \in ModelFilters :
       LET call == Issue([Idle EXCEPT !.pc = "done", !.method = "findAll",
                                      !.filters = filters, !.pre = rows],
                         "SELECTALL")
           err == FindAllError(filters)
       IN IF err # NoError
          THEN req' = [req EXCEPT ![c] =
                         [call EXCEPT !.err = err,
                                      !.ret = [NoReturn EXCEPT !.kind = "rejected"]]]
          ELSE \E resources \in findAll(rows, filters) :
                 req' = [req EXCEPT ![c] =
                           [call EXCEPT !.ret = [kind |-> "rows",
                                                 rows |-> resources]]]
  /\ UNCHANGED <<rows, seq, lastRowid, now, created, env, boot, calc>>

\* a POST request that fills the table
ModelReceive(c) ==
  /\ seq < MaxId
  /\ \E body \in {Laptop, Padded} : Arrive(c, "POST", <<>>, body, EmptyQuery)

ModelCall ==
  /\ ~(\E c \in Clients : InFlight(c))
  /\ (ModelReceive(1) \/ UpdateCall(1) \/ FindAllCall(1))

ModelStep ==
  \/ PostValidate(1) \/ PostInsert(1) \/ PostLastId(1) \/ PostFetch(1)
  \/ UpdateRun(1)

NextModel == ModelCall \/ ModelStep \/ Tick

SpecModel == Init /\ [][NextModel]_vars

---------------------------------------------------------------------------
(* The table under POST, PUT and DELETE requests whose bodies take, field by
   field, the values below: values the validators accept and values they
   reject *)

StoreValues ==
  [name |-> {Str(<<" ">>), Str(<<" ", "a">>), Num(0), Null},
   description |-> {Str(<<>>), Null},
   category |-> {Str(<<" ">>), Num(3)},
   price |-> {Num(-2), Num(0), Num(3), Str(<<"1">>), Null},
   quantity |-> {Num(-2), Num(0), Num(3), Num(4), Str(<<"1">>)}]

\* a body that also carries the keys the store assigns
WithStoreKeys(body) ==
  [body EXCEPT !.id = Num(18), !.created_at = Str(<<"x">>),
               !.updated_at = Str(<<"x">>)]

\* the valid body with one field replaced or left out, or with the keys of
\* the store
StorePostBodies ==
  UNION {{[Laptop EXCEPT ![k] = v] : v \in StoreValues[k] \cup {Undefined}} :
           k \in DOMAIN StoreValues}
  \cup {WithStoreKeys(Laptop)}

\* one field, or price and quantity together
StorePutBodies ==
  UNION {{[EmptyBody EXCEPT ![k] = v] : v \in StoreValues[k]} :
           k \in DOMAIN StoreValues}
  \cup {[EmptyBody EXCEPT !.price = p, !.quantity = q] :
          p \in StoreValues.price, q \in StoreValues.quantity}
  \cup {WithStoreKeys([EmptyBody EXCEPT !.name = Str(<<" ", "a">>)]),
        WithStoreKeys(EmptyBody)}

StorePaths == {<<"1">>, <<"2">>}

StoreReceive(c) ==
  \/ /\ seq < MaxId
     /\ \E body \in StorePostBodies : Arrive(c, "POST", <<>>, body, EmptyQuery)
  \/ \E path \in StorePaths, body \in StorePutBodies :
       Arrive(c, "PUT", path, body, EmptyQuery)
  \/ \E path \in StorePaths : Arrive(c, "DELETE", path, EmptyBody, EmptyQuery)

StoreHandle(c) ==
  \/ PostValidate(c) \/ PostInsert(c) \/ PostLastId(c) \/ PostFetch(c)
  \/ PutHandler(c) \/ PutUpdate(c) \/ PutFetch(c)
  \/ DeleteHandler(c) \/ DeleteFetch(c) \/ DeleteRun(c)

NextStore ==
  \/ ~(\E c \in Clients : InFlight(c)) /\ StoreReceive(1)
  \/ StoreHandle(1)

SpecStore == Init /\ [][NextStore]_vars

---------------------------------------------------------------------------
(* The service with /health, under each NODE_ENV, when statements can be
   rejected by the database: any awaited runQuery, getQuery or allQuery may
   reject with an error whose message carries the markers of one of Faults *)

Modes == {"development", "production", "test"}

Faults ==
  {{"SQLITE_CONSTRAINT"}, {"SQLITE_ERROR"}, {"SQLITE_BUSY"},
   {"SQLITE_CONSTRAINT", "SQLITE_ERROR"}}

\* res.json({ status: 'ok', timestamp }): a body without the key success
HealthBody == [NoResponse EXCEPT !.status = 200, !.hasSuccess = FALSE]

HealthHandler(c) ==
  /\ req[c].pc = "start" /\ req[c].method = "HEALTH"
  /\ Respond(c, HealthBody)
  /\ UNCHANGED <<rows, seq, lastRowid, now, created, env, boot, calc>>

\* the statement awaited at a position of the POST handler
CreateStatement(pc) ==
  CASE pc = "insert" -> "INSERT"
    [] pc = "lastid" -> "LASTID"
    [] pc = "created" -> "SELECT"

\* create or findById rejects in the POST handler: next(error)
CreateFails(c) ==
  /\ req[c].pc \in {"insert", "lastid", "created"}
  /\ \E e \in Faults :
       req' = [req EXCEPT ![c] = Issue(Forward(@, e), CreateStatement(req[c].pc))]
  /\ UNCHANGED <<rows, seq, lastRowid, now, created, env, boot, calc>>

\* findAll rejects in the list handler: next(error)
ListFails(c) ==
  /\ req[c].pc = "start" /\ req[c].method = "LIST"
  /\ \E e \in Faults :
       req' = [req EXCEPT ![c] = Issue(Forward(@, e), "SELECTALL")]
  /\ UNCHANGED <<rows, seq, lastRowid, now, created, env, boot, calc>>

\* findById rejects in the GET handler, in the PUT handler after the update,
\* or in the DELETE handler before the delete: next(error)
FindByIdFails(c) ==
  /\ req[c].pc \in {"get", "updated", "lookup"}
  /\ \E e \in Faults :
       req' = [req EXCEPT ![c] = Issue(Forward(@, e), "SELECT")]
  /\ UNCHANGED <<rows, seq, lastRowid, now, created, env, boot, calc>>

\* runQuery(UPDATE ...) rejects: the catch block of ResourceModel.update
\* returns false and the handler answers 404
UpdateFails(c) ==
  /\ req[c].pc = "update"
  /\ \E e \in Faults :
       req' = [req EXCEPT ![c] =
                 Issue([@ EXCEPT !.pc = "done", !.raised = e,
                                 !.sent = @ + 1, !.res = Failure(404,
                                   "Resource not found or no updates provided")],
                       "UPDATE")]
  /\ UNCHANGED <<rows, seq, lastRowid, now, created, env, boot, calc>>

\* ResourceModel.delete without its catch block: the handler's next(error)
DeleteFails_Forwards(c) ==
  /\ req[c].pc = "delete"
  /\ \E e \in Faults :
       req' = [req EXCEPT ![c] = Issue(Forward(@, e), "DELETE")]
  /\ UNCHANGED <<rows, seq, lastRowid, now, created, env, boot, calc>>

\* runQuery(DELETE ...) rejects: the catch block of ResourceModel.delete
\* returns false, which the handler does not look at
DeleteFails(c) ==
  /\ req[c].pc = "delete"
  /\ \E e \in Faults :
       req' = [req EXCEPT ![c] =
                 Issue([@ EXCEPT !.pc = "done", !.raised = e,
                                 !.sent = @ + 1, !.res = [Success(200, req[c].held) EXCEPT
                                            !.message = "Resource deleted successfully"]],
                       "DELETE")]
  /\ UNCHANGED <<rows, seq, lastRowid, now, created, env, boot, calc>>

FaultPaths == {<<"1">>, <<"9">>, <<"a">>}

FaultReceive(c) ==
  \/ /\ seq < MaxId
     /\ \E body \in {Laptop, [Laptop EXCEPT !.price = Num(-2)]} :
          Arrive(c, "POST", <<>>, body, EmptyQuery)
  \/ \E path \in FaultPaths : Arrive(c, "GET", path, EmptyBody, EmptyQuery)
  \/ \E path \in FaultPaths,
        body \in {[EmptyBody EXCEPT !.name = Str(<<"f">>)], EmptyBody} :
       Arrive(c, "PUT", path, body, EmptyQuery)
  \/ \E path \in FaultPaths : Arrive(c, "DELETE", path, EmptyBody, EmptyQuery)
  \/ \E query \in {EmptyQuery,
                    [EmptyQuery EXCEPT !.limit = Str(<<"0">>),
                                       !.offset = Str(<<"1">>)]} :
       Arrive(c, "LIST", <<>>, EmptyBody, query)
  \/ Arrive(c, "HEALTH", <<>>, EmptyBody, EmptyQuery)

Fail(c) ==
  \/ CreateFails(c) \/ ListFails(c) \/ FindByIdFails(c)
  \/ UpdateFails(c) \/ DeleteFails(c)

InitFault ==
  /\ rows = EmptyTable
  /\ seq = 0
  /\ lastRowid = 0
  /\ now = 0
  /\ req = [c \in Clients |-> Idle]
  /\ created = <<>>
  /\ env \in Modes
  /\ boot = Listening
  /\ calc = NoCalc

NextFault ==
  \/ ~(\E c \in Clients : InFlight(c)) /\ FaultReceive(1)
  \/ Handle(1)
  \/ HealthHandler(1)
  \/ Fail(1)

SpecFault == InitFault /\ [][NextFault]_vars

---------------------------------------------------------------------------
(* Creates and updates as time passes, with bodies that carry the keys of the
   store next to the business fields *)

UpdateBodies ==
  {[EmptyBody EXCEPT !.name = Str(<<"f">>)],
   [EmptyBody EXCEPT !.price = Num(4), !.quantity = Num(6)],
   WithStoreKeys([EmptyBody EXCEPT !.name = Str(<<" ", "a">>)])}

UpdateReceive(c) ==
  \/ /\ seq < MaxId
     /\ \E body \in {Laptop, WithStoreKeys(Padded)} :
          Arrive(c, "POST", <<>>, body, EmptyQuery)
  \/ \E path \in StorePaths, body \in UpdateBodies :
       Arrive(c, "PUT", path, body, EmptyQuery)

UpdateHandle(c) ==
  \/ PostValidate(c) \/ PostInsert(c) \/ PostLastId(c) \/ PostFetch(c)
  \/ PutHandler(c) \/ PutUpdate(c) \/ PutFetch(c)

NextUpdate ==
  \/ ~(\E c \in Clients : InFlight(c)) /\ UpdateReceive(1)
  \/ UpdateHandle(1)
  \/ Tick

SpecUpdate == Init /\ [][NextUpdate]_vars

---------------------------------------------------------------------------
(* startServer: initializeDatabase, then app.listen; the requests of one
   client once the server listens.  Either db.run of initializeDatabase may
   fail. *)

\* db.run(CREATE TABLE IF NOT EXISTS resources ...) and its callback
CreateTable ==
  /\ boot.phase = "start"
  /\ \/ boot' = [boot EXCEPT !.phase = "table",
                              !.schema = @ \cup {"resources"}]
     \/ boot' = [boot EXCEPT !.phase = "rejected"]
  /\ UNCHANGED <<rows, seq, lastRowid, now, req, created, env, calc>>

\* db.run(CREATE TRIGGER IF NOT EXISTS update_resources_timestamp ...) in the
\* callback of the first, and its callback: resolve() or reject(err)
CreateTrigger ==
  /\ boot.phase = "table"
  /\ \/ boot' = [boot EXCEPT !.phase = "resolved",
                              !.schema = @ \cup {"update_resources_timestamp"}]
     \/ boot' = [boot EXCEPT !.phase = "rejected"]
  /\ UNCHANGED <<rows, seq, lastRowid, now, req, created, env, calc>>

\* startServer calling app.listen whatever initializeDatabase came to
Listen_NoAwait ==
  /\ boot.phase \in {"start", "table", "resolved", "rejected"}
  /\ boot' = [boot EXCEPT !.phase = "listening"]
  /\ UNCHANGED <<rows, seq, lastRowid, now, req, created, env, calc>>

\* startServer after await initializeDatabase(): app.listen(PORT)
Listen ==
  /\ boot.phase = "resolved"
  /\ boot' = [boot EXCEPT !.phase = "listening"]
  /\ UNCHANGED <<rows, seq, lastRowid, now, req, created, env, calc>>

\* the catch block of startServer: process.exit(1)
Exit ==
  /\ boot.phase = "rejected"
  /\ boot' = [boot EXCEPT !.phase = "exited", !.exit = 1]
  /\ UNCHANGED <<rows, seq, lastRowid, now, req, created, env, calc>>

InitStartup ==
  /\ rows = EmptyTable
  /\ seq = 0
  /\ lastRowid = 0
  /\ now = 0
  /\ req = [c \in Clients |-> Idle]
  /\ created = <<>>
  /\ env = "test"
  /\ boot = NotStarted
  /\ calc = NoCalc

NextStartup ==
  \/ CreateTable \/ CreateTrigger \/ Listen \/ Exit
  \/ ~(\E c \in Clients : InFlight(c)) /\ UpdateReceive(1)
  \/ UpdateHandle(1)

SpecStartup == InitStartup /\ [][NextStartup]_vars

---------------------------------------------------------------------------
(* Two clients whose requests are in flight together: the statements of the
   two handlers reach the one connection in any order, each handler going on
   after the statement it awaits *)

ConcurrentReceive(c) ==
  \/ /\ seq < MaxId
     /\ \E body \in {Laptop, Padded} : Arrive(c, "POST", <<>>, body, EmptyQuery)
  \/ Arrive(c, "PUT", <<"1">>, [EmptyBody EXCEPT !.name = Str(<<"f">>)],
            EmptyQuery)
  \/ Arrive(c, "DELETE", <<"1">>, EmptyBody, EmptyQuery)

ConcurrentHandle(c) ==
  \/ PostValidate(c) \/ PostInsert(c) \/ PostLastId(c) \/ PostFetch(c)
  \/ PutHandler(c) \/ PutUpdate(c) \/ PutFetch(c)
  \/ DeleteHandler(c) \/ DeleteFetch(c) \/ DeleteRun(c)

NextConcurrent ==
  \E c \in Clients : ConcurrentReceive(c) \/ ConcurrentHandle(c)

SpecConcurrent == Init /\ [][NextConcurrent]_vars

---------------------------------------------------------------------------
(* problem4: the three sum_to_n functions, called on one argument *)

\* the formula used for every n
sum_to_n_a_FormulaOnly(n) == (n * (n + 1)) \div 2

\* n * (n + 1) is even, so the division by 2 is exact
sum_to_n_a(n) ==
  IF n >= 0
  THEN (n * (n + 1)) \div 2
  ELSE LET absN == IF n < 0 THEN -n ELSE n
       IN -((absN * (absN + 1)) \div 2)

\* for (let i = first; i <= last; i++) sum += i
RECURSIVE ForLoop(_, _, _)
ForLoop(i, last, sum) ==
  IF i <= last THEN ForLoop(i + 1, last, sum + i) ELSE sum

sum_to_n_b(n) == IF n >= 0 THEN ForLoop(1, n, 0) ELSE ForLoop(n, -1, 0)

RECURSIVE sum_to_n_c(_)
sum_to_n_c(n) ==
  IF n = 0 THEN 0
  ELSE IF n > 0 THEN n + sum_to_n_c(n - 1)
       ELSE n + sum_to_n_c(n + 1)

CallA ==
  /\ "a" \notin calc.done
  /\ calc' = [calc EXCEPT !.a = sum_to_n_a(calc.n), !.done = @ \cup {"a"}]
  /\ UNCHANGED <<rows, seq, lastRowid, now, req, created, env, boot>>

CallB ==
  /\ "b" \notin calc.done
  /\ calc' = [calc EXCEPT !.b = sum_to_n_b(calc.n), !.done = @ \cup {"b"}]
  /\ UNCHANGED <<rows, seq, lastRowid, now, req, created, env, boot>>

CallC ==
  /\ "c" \notin calc.done
  /\ calc' = [calc EXCEPT !.c = sum_to_n_c(calc.n), !.done = @ \cup {"c"}]
  /\ UNCHANGED <<rows, seq, lastRowid, now, req, created, env, boot>>

InitSum ==
  /\ rows = EmptyTable
  /\ seq = 0
  /\ lastRowid = 0
  /\ now = 0
  /\ req = [c \in Clients |-> Idle]
  /\ created = <<>>
  /\ env = "test"
  /\ boot = Listening
  /\ calc \in {[NoCalc EXCEPT !.n = n] : n \in -MaxN..MaxN}

NextSum == CallA \/ CallB \/ CallC

SpecSum == InitSum /\ [][NextSum]_vars

---------------------------------------------------------------------------
(* Properties *)

Done(c) == req[c].pc = "done"

\* C1: the identifiers returned by successive creates strictly increase (so
\* none is returned twice), and the identifier the next insert will get is
\* greater than every identifier returned so far, whatever was deleted or
\* updated in between.
C1_IdentifiersIncrease ==
  /\ \A i, j \in 1..Len(created) : i < j => created[i] < created[j]
  /\ \A i \in 1..Len(created) :
       created[i] >= 1 /\ created[i] < NextRowid(rows, seq)

\* the second create arrived at a table emptied by a delete and got 2, not 1
C1_Witness ==
  /\ created = <<1, 2>>
  /\ DOMAIN rows = {2}
  /\ req[1].method = "POST" /\ Done(1) /\ req[1].pre = EmptyTable

\* C2: a POST whose payload the creation validator accepts is answered 201
\* with the resource read back by findById(returned id), whose identifier is
\* defined and whose five business fields equal the payload's values.
C2_RoundTrip ==
  \A c \in Clients :
    (Done(c) /\ req[c].method = "POST"
       /\ validateResource(req[c].body).status = 0)
    => /\ req[c].res.status = 201 /\ req[c].res.success
       /\ Len(req[c].res.data) = 1
       /\ req[c].res.data[1].id = req[c].newId /\ req[c].newId >= 1
       /\ \A i \in 1..Len(BusinessFields) :
            req[c].res.data[1][BusinessFields[i]] = req[c].body[BusinessFields[i]]

\* the payload whose name starts with a blank came back as it was sent
C2_Witness ==
  /\ Done(1) /\ req[1].method = "POST" /\ req[1].body = Padded
  /\ req[1].res.status = 201
  /\ req[1].res.data[1].name = Str(<<" ", "B">>)

\* the field rules of the validation layer, stated on the value of a field
SomeNonBlank(s) == \E i \in 1..Len(s) : s[i] \notin WhiteSpace

RuleHolds(k, x) ==
  CASE k \in {"name", "description", "category"} ->
         x.t = "string" /\ SomeNonBlank(x.v)
    [] k = "price" -> x.t = "number" /\ x.v >= 0
    [] k = "quantity" -> x.t = "number" /\ x.v >= 0 /\ x.v % 2 = 0

CreateMessages ==
  <<"Name is required and must be a non-empty string",
    "Description is required and must be a non-empty string",
    "Category is required and must be a non-empty string",
    "Price is required and must be a non-negative number",
    "Quantity is required and must be a non-negative integer">>

\* the messages of the violated rules, in the order of the fields
RECURSIVE Violations(_, _)
Violations(body, n) ==
  IF n = 0 THEN <<>>
  ELSE IF RuleHolds(BusinessFields[n], body[BusinessFields[n]])
       THEN Violations(body, n - 1)
       ELSE Append(Violations(body, n - 1), CreateMessages[n])

\* C3: the creation validator answers 400 with exactly one message per
\* violated field rule, in the order name, description, category, price,
\* quantity, and hands the request to the handler iff no rule is violated.
C3_AllViolationsReported ==
  \A c \in Clients :
    (req[c].method = "POST" /\ req[c].pc # "start")
    => LET expected == Violations(req[c].body, Len(BusinessFields))
       IN IF expected = <<>>
          THEN req[c].pc = "insert" /\ req[c].res = NoResponse
          ELSE /\ Done(c)
               /\ req[c].res.status = 400 /\ ~req[c].res.success
               /\ req[c].res.errors = expected

\* a body with only a valid name is answered with the four other messages
C3_Witness ==
  /\ Done(1) /\ req[1].method = "POST"
  /\ req[1].body = [EmptyBody EXCEPT !.name = Str(<<" ", "a">>)]
  /\ req[1].res.status = 400
  /\ Len(req[1].res.errors) = 4

\* the response is one of the two the update validator sends
RejectedByUpdateValidator(c) ==
  /\ Done(c) /\ req[c].res.status = 400 /\ ~req[c].res.success
  /\ req[c].stmts = <<>>
  /\ req[c].res.errors # <<>> \/ req[c].res.error = "No valid fields to update"

\* C4: the update validator passes a body iff every business field present
\* satisfies the rule of creation and at least one of them is present; a
\* body without any of them is answered 400 before any statement is issued.
C4_UpdateValidator ==
  \A c \in Clients :
    (req[c].method = "PUT" /\ req[c].pc # "start")
    => LET present == {i \in 1..Len(BusinessFields) :
                         req[c].body[BusinessFields[i]].t # "undefined"}
           valid == \A i \in present :
                      RuleHolds(BusinessFields[i], req[c].body[BusinessFields[i]])
       IN /\ (valid /\ present # {}) <=> ~RejectedByUpdateValidator(c)
          /\ present = {} => RejectedByUpdateValidator(c)

\* a body with an unknown key only is rejected
C4_Witness ==
  /\ req[1].method = "PUT"
  /\ req[1].body = [EmptyBody EXCEPT !.id = Num(18)]
  /\ RejectedByUpdateValidator(1)
  /\ req[1].res.error = "No valid fields to update"

\* a path parameter that is a decimal number and nothing else
WellFormed(path) == path # <<>> /\ DigitPrefix(path, 10) = path

IdRoute(c) == req[c].method \in {"GET", "PUT", "DELETE"}

\* C5 (as claimed): on GET, PUT and DELETE /:id, a path parameter that is not
\* a well-formed number is answered 400 'Invalid resource ID' and no
\* statement is issued for the request.  (For PUT the claim is read for the
\* bodies that pass the validator, which runs before the handler.)
C5_MalformedIdRejected ==
  \A c \in Clients :
    (Done(c) /\ IdRoute(c) /\ ~WellFormed(req[c].path)
       /\ (req[c].method = "PUT" => validateResourceUpdate(req[c].body).status = 0))
    => /\ req[c].res.status = 400
       /\ req[c].res.error = "Invalid resource ID"
       /\ req[c].stmts = <<>>

\* the request addresses a well-formed identifier that had no row when it
\* arrived
NoSuchRow(c) ==
  /\ WellFormed(req[c].path)
  /\ DigitsValue(req[c].path, 10) \notin DOMAIN req[c].pre

\* C6: a DELETE, or a PUT whose body passes validation, addressed to a
\* well-formed identifier without a stored row is answered 404 with
\* success=false, and the table after the request is the table before it.
C6_MissingRowIs404 ==
  \A c \in Clients :
    (Done(c) /\ req[c].method \in {"PUT", "DELETE"} /\ NoSuchRow(c)
       /\ (req[c].method = "PUT" => validateResourceUpdate(req[c].body).status = 0))
    => /\ req[c].res.status = 404 /\ ~req[c].res.success
       /\ rows = req[c].pre

\* PUT /9 with a valid body on a table that holds a row
C6_Witness ==
  /\ Done(1) /\ req[1].method = "PUT" /\ req[1].path = <<"9">>
  /\ req[1].body = [EmptyBody EXCEPT !.name = Str(<<"f">>)]
  /\ req[1].res.status = 404
  /\ rows # EmptyTable

Mutating(stmt) == stmt \in {"UPDATE", "DELETE"}

\* C7 (as claimed): in the update and the delete handler a findById lookup
\* comes before any mutating statement, and a request answered 404 has
\* issued no UPDATE and no DELETE.
C7_ReadBeforeWrite ==
  \A c \in Clients :
    req[c].method \in {"PUT", "DELETE"}
    => /\ \A i \in 1..Len(req[c].stmts) :
            Mutating(req[c].stmts[i])
            => \E j \in 1..(i - 1) : req[c].stmts[j] = "SELECT"
       /\ (Done(c) /\ req[c].res.status = 404)
          => \A i \in 1..Len(req[c].stmts) : ~Mutating(req[c].stmts[i])

\* C7 (amended): the delete handler looks the row up before any DELETE
\* statement, issues the DELETE only when the lookup found the row and
\* answers 404 without a DELETE otherwise; the update handler makes no lookup
\* before it writes: its first statement is the UPDATE, and when it answers
\* 404 the table is as it was.
C7_ReadBeforeDelete ==
  \A c \in Clients :
    /\ req[c].method = "DELETE"
       => /\ \A i \in 1..Len(req[c].stmts) :
               req[c].stmts[i] = "DELETE"
               => /\ i = 2 /\ req[c].stmts[1] = "SELECT"
                  /\ req[c].held # <<>>
          /\ (Done(c) /\ req[c].res.status = 404)
             => req[c].stmts = <<"SELECT">>
    /\ (req[c].method = "PUT" /\ req[c].stmts # <<>>)
       => /\ req[c].stmts[1] = "UPDATE"
          /\ (Done(c) /\ req[c].res.status = 404) => rows = req[c].pre

\* a PUT to a missing row was answered 404 after its UPDATE statement
C7_Witness ==
  /\ Done(1) /\ req[1].method = "PUT" /\ req[1].res.status = 404
  /\ req[1].stmts = <<"UPDATE">>
  /\ rows # EmptyTable

PriceBounds(c) ==
  /\ req[c].query.min_price.t = "string"
  /\ req[c].query.max_price.t = "string"
  /\ WellFormed(req[c].query.min_price.v)
  /\ WellFormed(req[c].query.max_price.v)
  /\ DigitsValue(req[c].query.min_price.v, 10)
       <= DigitsValue(req[c].query.max_price.v, 10)

\* P1 <= price <= P2 for the bounds of the query of request c
InRange(r, c) ==
  /\ r.price.t = "number"
  /\ 2 * DigitsValue(req[c].query.min_price.v, 10) <= r.price.v
  /\ r.price.v <= 2 * DigitsValue(req[c].query.max_price.v, 10)

OnlyPriceFilters(c) ==
  \A k \in {"name", "category", "limit", "offset"} :
    req[c].query[k].t = "undefined"

\* C8: a list request with min_price=P1 and max_price=P2, P1 <= P2, returns
\* only resources with P1 <= price <= P2, and when it carries no other
\* parameter it is answered 200 with every stored resource in that range.
C8_PriceRange ==
  \A c \in Clients :
    (Done(c) /\ req[c].method = "LIST" /\ PriceBounds(c))
    => /\ \A i \in 1..Len(req[c].res.data) : InRange(req[c].res.data[i], c)
       /\ OnlyPriceFilters(c)
          => /\ req[c].res.status = 200
             /\ {req[c].res.data[i] : i \in 1..Len(req[c].res.data)}
                  = {rows[j] : j \in {k \in DOMAIN rows : InRange(rows[k], c)}}

\* min_price=0 returned the row priced 0 and left out a row above max_price
C8_Witness ==
  /\ Done(1) /\ req[1].method = "LIST" /\ PriceBounds(1) /\ OnlyPriceFilters(1)
  /\ req[1].query.min_price = Str(<<"0">>)
  /\ Len(req[1].res.data) = 1
  /\ req[1].res.data[1].price = Num(0)
  /\ Cardinality(DOMAIN rows) = 2

\* C9 (as claimed): in every list answer a resource created later comes
\* before a resource created earlier; identifiers are handed out in the
\* order of creation.
C9_NewestFirst ==
  \A c \in Clients :
    (Done(c) /\ req[c].method = "LIST")
    => \A i, j \in 1..Len(req[c].res.data) :
         i < j => req[c].res.data[i].id > req[c].res.data[j].id

\* the limit and the offset a list request asks for
AskedLimit(c) ==
  IF req[c].query.limit.t = "undefined" THEN 50
  ELSE DigitsValue(req[c].query.limit.v, 10)

AskedOffset(c) ==
  IF req[c].query.offset.t = "undefined" THEN 0
  ELSE DigitsValue(req[c].query.offset.v, 10)

Min(a, b) == IF a < b THEN a ELSE b

\* C10 (as claimed): a list answer carries at most `limit` resources (50
\* when the query has none), they are the ordered matching rows after the
\* first `offset` rows, and count is the length of data.
C10_Pagination ==
  \A c \in Clients :
    (Done(c) /\ req[c].method = "LIST" /\ req[c].res.status = 200)
    => /\ Len(req[c].res.data) <= AskedLimit(c)
       /\ req[c].res.count = Len(req[c].res.data)
       /\ \E o \in Orderings({rows[i] : i \in {j \in DOMAIN rows :
                                 Matches(rows[j], Filters(req[c].query))}}) :
            req[c].res.data
              = SubSeq(o, Min(AskedOffset(c), Len(o)) + 1,
                       Min(AskedOffset(c) + AskedLimit(c), Len(o)))

---------------------------------------------------------------------------

\* the rows a LIMIT of `limit` and an OFFSET of `offset` leave of the ordered
\* rows o: the offset absent is 0, the limit absent is every row
Slice(o, limit, offset) ==
  LET skip == IF offset.t = "undefined" THEN 0 ELSE offset.v \div 2
      take == IF limit.t = "undefined" THEN Len(o) ELSE limit.v \div 2
  IN SubSeq(o, Min(skip, Len(o)) + 1, Min(skip + take, Len(o)))

\* C11 (as claimed): findAll called with a limit of 0 runs its query with
\* LIMIT 0, so it resolves with no row whatever the table holds; only a call
\* without the limit field is unlimited.
C11_LimitZeroLiteral ==
  \A c \in Clients :
    (Done(c) /\ req[c].method = "findAll" /\ req[c].filters.limit = Num(0)
       /\ req[c].ret.kind = "rows")
    => req[c].ret.rows = <<>>

\* C12 (as claimed): findAll resolves, for every combination of limit and
\* offset present or absent, with the slice of the ordered matching rows that
\* the two select; it never rejects.
C12_LimitOffsetIndependent ==
  \A c \in Clients :
    (Done(c) /\ req[c].method = "findAll")
    => /\ req[c].ret.kind = "rows"
       /\ \E o \in Orderings({rows[i] : i \in {j \in DOMAIN rows :
                                 Matches(rows[j], req[c].filters)}}) :
            req[c].ret.rows
              = Slice(o, req[c].filters.limit, req[c].filters.offset)

\* C13: update(id, updates) with none of the five recognized fields in
\* updates resolves false, has issued no statement, and leaves the table,
\* updated_at of every row included, as it was at the call.
C13_NoFieldsNoStatement ==
  \A c \in Clients :
    (Done(c) /\ req[c].method = "update" /\ UpdateFields(req[c].body) = {})
    => /\ req[c].ret.kind = "false"
       /\ req[c].stmts = <<>>
       /\ rows = req[c].pre

\* update({id: 9}) on a table whose row 1 was stored a second earlier
C13_Witness ==
  /\ Done(1) /\ req[1].method = "update"
  /\ req[1].body = [EmptyBody EXCEPT !.id = Num(18)]
  /\ req[1].id = Num(2)
  /\ 1 \in DOMAIN rows /\ rows[1].updated_at < now

---------------------------------------------------------------------------

\* C14 (as claimed): a PUT answered 200 leaves the row with an updated_at
\* strictly greater than the one it had when the request arrived, also when
\* the request follows the create or another update at once.
C14_UpdatedAtAdvances ==
  \A c \in Clients :
    (Done(c) /\ req[c].method = "PUT" /\ req[c].res.status = 200)
    => LET id == req[c].id.v \div 2
       IN rows[id].updated_at > req[c].pre[id].updated_at

\* an identifier that was assigned and whose row is gone
Gone(i) == i \in 1..seq /\ i \notin DOMAIN rows

---------------------------------------------------------------------------

\* C15: whatever POST, PUT and DELETE requests were served, every stored row
\* has a price that is a number >= 0, a quantity that is an integer >= 0, a
\* name, a description and a category that are strings with a character other
\* than white space, and an identifier no other stored row has.
C15_StoredRowsValid ==
  /\ \A i \in DOMAIN rows :
       \A k \in 1..Len(BusinessFields) :
         RuleHolds(BusinessFields[k], rows[i][BusinessFields[k]])
  /\ \A i, j \in DOMAIN rows : i # j => rows[i].id # rows[j].id

\* after two creates, the delete of resource 1 and two updates of resource 2
C15_Witness ==
  /\ Done(1) /\ req[1].method = "PUT" /\ req[1].res.status = 200
  /\ created = <<1, 2>> /\ DOMAIN rows = {2}
  /\ rows[2].name = Str(<<" ", "a">>) /\ rows[2].quantity = Num(0)

---------------------------------------------------------------------------

\* the status and text the translator is to answer an error with
Translation(err) ==
  CASE "SQLITE_CONSTRAINT" \in err -> <<400, "Database constraint violation">>
    [] "SQLITE_CONSTRAINT" \notin err /\ "SQLITE_ERROR" \in err ->
         <<500, "Database error">>
    [] OTHER -> <<500, "Internal server error">>

\* C17: every error handed to the error translator is answered by its
\* markers: 400 'Database constraint violation' when the message has the
\* constraint marker, also next to the storage marker; else 500 'Database
\* error' when it has the storage marker; else 500 'Internal server error';
\* each with success false.
C17_ErrorTranslation ==
  \A c \in Clients :
    (Done(c) /\ req[c].err # NoError)
    => /\ <<req[c].res.status, req[c].res.error>> = Translation(req[c].err)
       /\ req[c].res.hasSuccess /\ ~req[c].res.success

\* an error with both markers was answered 400
C17_Witness ==
  /\ Done(1) /\ req[1].err = {"SQLITE_CONSTRAINT", "SQLITE_ERROR"}
  /\ req[1].res.status = 400

\* C18 (as claimed): a response of the error translator carries the message
\* of the error only outside production mode; in production mode no response
\* has details.
C18_NoDetailsInProduction ==
  \A c \in Clients :
    (Done(c) /\ req[c].err # NoError /\ req[c].res.details # {})
    => env # "production"

\* C19 (as claimed): a request one of whose statements was rejected is
\* answered by the error translator with the envelope of that error, never
\* with another answer of the route.
C19_ErrorsReachTranslator ==
  \A c \in Clients :
    (Done(c) /\ req[c].raised # NoError)
    => /\ req[c].err = req[c].raised
       /\ req[c].res = errorHandler(req[c].raised)

---------------------------------------------------------------------------

\* C21: the lookup of a create returns the rowid of the latest INSERT made on
\* the connection, whichever request made it: with two creates in flight it
\* is the own row's or that of a row inserted later by the other request,
\* and the 201 answer carries the row of that identifier.
C21_LookupSeesLatestInsert ==
  /\ [][\A c \in Clients :
          (req[c].pc = "lastid" /\ req'[c].pc = "created")
          => req'[c].newId = seq]_vars
  /\ [](\A c \in Clients :
         (req[c].method = "POST" /\ req[c].pc \in {"created", "done"}
            /\ req[c].inserted # 0)
         => /\ req[c].newId >= req[c].inserted /\ req[c].newId <= seq
            /\ (Done(c) /\ req[c].res.data # <<>>)
                 => req[c].res.data[1].id = req[c].newId)

\* insert of request 1, insert of request 2, lookup of request 1: the 201
\* answer to request 1 carries the resource of request 2
C21_Witness ==
  /\ Done(1) /\ req[1].method = "POST" /\ req[1].res.status = 201
  /\ req[1].inserted = 1 /\ req[2].inserted = 2 /\ req[2].method = "POST"
  /\ req[1].res.data # <<>> /\ req[1].res.data[1].id = 2
  /\ req[1].res.data[1].name = req[2].body.name
  /\ req[1].body.name # req[2].body.name

---------------------------------------------------------------------------

\* C27 (as claimed): whatever the interleaving, a PUT answered 200 carries in
\* data the stored resource with the requested values.
C27_PutAnswerCarriesRow ==
  \A c \in Clients :
    (Done(c) /\ req[c].method = "PUT" /\ req[c].res.status = 200)
    => /\ req[c].res.data # <<>>
       /\ \A k \in UpdateFields(req[c].body) :
            req[c].res.data[1][k] = Field(req[c].body, k)

\* C28 (as claimed): of the DELETE requests for one identifier, at most one
\* is answered 200 'Resource deleted successfully'.
C28_OneDeleteSucceeds ==
  \A c, d \in Clients :
    (c # d /\ Done(c) /\ Done(d)
       /\ req[c].method = "DELETE" /\ req[d].method = "DELETE"
       /\ req[c].id = req[d].id /\ req[c].res.status = 200)
    => req[d].res.status = 404

---------------------------------------------------------------------------

\* C22: a POST or PUT whose body its validator rejects is answered 400 with
\* the validator's errors, no statement was issued for it, and the table is
\* as it was when the request arrived.
C22_RejectionTouchesNothing ==
  \A c \in Clients :
    (Done(c)
       /\ \/ req[c].method = "POST" /\ validateResource(req[c].body).status # 0
          \/ req[c].method = "PUT"
               /\ validateResourceUpdate(req[c].body).status # 0)
    => /\ req[c].res.status = 400 /\ ~req[c].res.success
       /\ req[c].res.errors # <<>>
            \/ req[c].res.error = "No valid fields to update"
       /\ req[c].stmts = <<>>
       /\ rows = req[c].pre

\* a POST with a negative price rejected while the table holds a resource
C22_Witness ==
  /\ Done(1) /\ req[1].method = "POST"
  /\ req[1].body = [Laptop EXCEPT !.price = Num(-2)]
  /\ req[1].res.status = 400
  /\ DOMAIN rows = {1}

---------------------------------------------------------------------------

\* lo + (lo + 1) + ... + hi
RECURSIVE SumRange(_, _)
SumRange(lo, hi) == IF lo > hi THEN 0 ELSE lo + SumRange(lo + 1, hi)

\* C23: for every n from -MaxN to MaxN the three functions return the same
\* value: n(n+1)/2, the sum 1 + ... + n, for n >= 0, and the sum
\* n + ... + (-1), which is -(|n|(|n|+1)/2), for n < 0.
C23_SumsAgree ==
  LET n == calc.n
      expected == IF n >= 0 THEN SumRange(1, n) ELSE SumRange(n, -1)
  IN /\ n >= 0 => 2 * expected = n * (n + 1)
     /\ n < 0 => 2 * expected = -((-n) * ((-n) + 1))
     /\ "a" \in calc.done => calc.a = expected
     /\ "b" \in calc.done => calc.b = expected
     /\ "c" \in calc.done => calc.c = expected

\* the three functions called on -5, the negative case of the tests
C23_Witness ==
  /\ calc.n = -5 /\ calc.done = {"a", "b", "c"}
  /\ calc.a = -15 /\ calc.b = -15 /\ calc.c = -15

---------------------------------------------------------------------------

\* text has the characters of part, in their case, at some position
Contains(text, part) ==
  \E i \in 0..Len(text) :
    i + Len(part) <= Len(text) /\ SubSeq(text, i + 1, i + Len(part)) = part

OnlyTextFilters(query) ==
  /\ query.min_price.t = "undefined" /\ query.max_price.t = "undefined"
  /\ query.limit.t = "undefined" /\ query.offset.t = "undefined"

\* C24 (as claimed): a list request with a name and/or a category in its
\* query is answered with exactly the stored resources whose name contains
\* the text of name, character for character in the same case, and whose
\* category equals the value of category.
C24_NameFilterLiteral ==
  \A c \in Clients :
    (Done(c) /\ req[c].method = "LIST" /\ req[c].res.status = 200
       /\ OnlyTextFilters(req[c].query))
    => {req[c].res.data[i] : i \in 1..Len(req[c].res.data)}
         = {rows[i] : i \in {j \in DOMAIN rows :
              /\ req[c].query.name.t = "undefined"
                 \/ Contains(rows[j].name.v, req[c].query.name.v)
              /\ req[c].query.category.t = "undefined"
                 \/ rows[j].category = req[c].query.category}}

---------------------------------------------------------------------------

\* C25: a PUT answered 200 has set the business fields its body supplies to
\* the supplied values and left every other business field, the identifier
\* and created_at of the row, and every other row as they were; a POST
\* answered 201 has stored its row under the identifier and the creation
\* time the store assigned, whatever id, created_at or updated_at the body
\* carries.
C25_UpdateWritesSuppliedFieldsOnly ==
  \A c \in Clients :
    /\ (Done(c) /\ req[c].method = "PUT" /\ req[c].res.status = 200)
       => LET id == req[c].id.v \div 2
              old == req[c].pre[id]
              new == rows[id]
          IN /\ \A i \in 1..Len(BusinessFields) :
                  LET k == BusinessFields[i]
                  IN new[k] = IF Field(req[c].body, k).t # "undefined"
                              THEN Field(req[c].body, k)
                              ELSE old[k]
             /\ new.id = id /\ old.id = id
             /\ new.created_at = old.created_at
             /\ DOMAIN rows = DOMAIN req[c].pre
             /\ \A j \in DOMAIN rows \ {id} : rows[j] = req[c].pre[j]
    /\ (Done(c) /\ req[c].method = "POST" /\ req[c].res.status = 201)
       => LET id == req[c].newId
          IN /\ id = req[c].inserted /\ id \notin DOMAIN req[c].pre
             /\ rows[id].id = id
             /\ rows[id].created_at \in 0..now
             /\ rows[id].updated_at = rows[id].created_at
             /\ \A j \in DOMAIN req[c].pre : rows[j] = req[c].pre[j]

\* PUT /api/resources/1 {name, id: 9, created_at, updated_at} answered 200 a
\* second after the create, while resource 2 is stored as well
C25_Witness ==
  /\ Done(1) /\ req[1].method = "PUT" /\ req[1].res.status = 200
  /\ req[1].body = WithStoreKeys([EmptyBody EXCEPT !.name = Str(<<" ", "a">>)])
  /\ req[1].id = Num(2)
  /\ DOMAIN rows = {1, 2}
  /\ rows[1].created_at = 0 /\ rows[1].updated_at = 1

---------------------------------------------------------------------------

\* C26: the server listens, and a request is taken, only when the table and
\* the trigger both exist; the trigger is created only after the table; and
\* once initializeDatabase has failed the server is not listening, no request
\* is taken, and the only step left is the exit with code 1, after which
\* nothing changes.
C26_ListenAfterInitialization ==
  /\ [](/\ (boot.phase = "listening") => (boot.schema = Schema)
        /\ ("update_resources_timestamp" \in boot.schema)
             => ("resources" \in boot.schema)
        /\ (\E c \in Clients : req[c] # Idle) => (boot.phase = "listening")
        /\ boot.exit \in {-1, 1}
        /\ (boot.exit = 1) <=> (boot.phase = "exited"))
  /\ [][/\ (boot'.phase = "listening")
             => (boot.phase \in {"resolved", "listening"})
        /\ (boot.phase = "rejected")
             => (boot'.phase = "exited" /\ boot'.exit = 1)
        /\ (boot.phase = "exited") => (boot' = boot)]_vars

\* a create answered by the listening server
C26_Witness ==
  /\ boot.phase = "listening" /\ boot.schema = Schema
  /\ Done(1) /\ req[1].method = "POST" /\ req[1].res.status = 201

---------------------------------------------------------------------------

\* C29: a request has no response while its handler runs and exactly one
\* when it has ended; when an error was forwarded, that response is the
\* error translator's, and otherwise it is a validator's or the handler's;
\* and once the outcome is there nothing more happens for the request.
C29_ExactlyOneOutcome ==
  /\ [](\A c \in Clients :
         /\ req[c].sent <= 1
         /\ InFlight(c) => (req[c].sent = 0 /\ req[c].err = NoError
                              /\ req[c].res = NoResponse)
         /\ Done(c) => (req[c].sent = 1 /\ req[c].res.status # 0)
         /\ (Done(c) /\ req[c].err # NoError)
              => (req[c].res = errorHandler(req[c].err))
         /\ (Done(c) /\ req[c].err = NoError) => (req[c].res.details = {}))
  /\ [][\A c \in Clients :
          (Done(c) /\ req'[c].pc = "done") => (req'[c] = req[c])]_vars

\* a GET whose findById was rejected: no response from the handler, one from
\* the error translator
C29_Witness ==
  /\ Done(1) /\ req[1].method = "GET" /\ req[1].sent = 1
  /\ req[1].err = {"SQLITE_BUSY"} /\ req[1].res.status = 500

\* C30: when the DELETE handler's lookup found the row and the DELETE
\* statement was rejected, the error is not forwarded, the answer is 200
\* 'Resource deleted successfully' with the resource read before, and the
\* row is still stored.
C30_FailedDeleteAnswered200 ==
  \A c \in Clients :
    (Done(c) /\ req[c].method = "DELETE" /\ req[c].held # <<>>
       /\ req[c].raised # NoError)
    => /\ req[c].stmts = <<"SELECT", "DELETE">>
       /\ req[c].err = NoError
       /\ req[c].res.status = 200 /\ req[c].res.success
       /\ req[c].res.message = "Resource deleted successfully"
       /\ req[c].res.data = req[c].held
       /\ SelectById(rows, req[c].id) = req[c].held

\* DELETE /api/resources/1 answered 200 although its statement was rejected
C30_Witness ==
  /\ Done(1) /\ req[1].method = "DELETE" /\ req[1].raised = {"SQLITE_BUSY"}
  /\ req[1].res.status = 200 /\ 1 \in DOMAIN rows

====
